---- MODULE Spec2Model ----
(***************************************************************************)
(* The shard lifecycle manager and journal recorder of orchestrator.py     *)
(* (class AgentOrchestrator) together with the record schemas of           *)
(* schemas.py that its operations construct.                               *)
(*                                                                         *)
(* The in-memory document self.active_shards is `mem`, the stored          *)
(* active_story_shards.json is `shards_file`, the journal directory is     *)
(* `journal`.  Python dicts are records (a missing key is a missing        *)
(* field), Python lists are sequences.                                     *)
(***************************************************************************)
EXTENDS Integers, Sequences, FiniteSets, TLC

VARIABLES
    manifest,      \* self.manifest['guru_agents'], loaded by __init__
    mem,           \* self.active_shards: the in-memory shard document
    shards_file,   \* the stored shard document: <<>> (no file) or <<doc>>
    journal,       \* journal directory: file name -> content
    now,           \* the clock, as last read (seconds)
    last,          \* the last call: operation, outcome, return value, and
                   \* what the call was given: the active entry its lookup
                   \* found (before the call changed it), or the arguments of
                   \* a call on schemas.py
    self,          \* which manager instance makes the calls: mem is its
                   \* self.active_shards
    peer,          \* self.active_shards of the other manager instance over
                   \* the same repository: <<>> (none constructed) or <<doc>>
    done           \* history: the mutating calls that returned success, as
                   \* <<instance, operation, shard id>>

vars == <<manifest, mem, shards_file, journal, now, last, self, peer, done>>

\* the manager instances
instances == <<self, peer, done>>

----------------------------------------------------------------------------
(* Bounds of the model. *)

\* how many shards the document may hold (active + completed + archived)
MaxShards == 2
\* the largest clock value
MaxClock == 1

----------------------------------------------------------------------------
(* Strings.  A string is an atom; Chars gives its characters, so that     *)
(* strip(), lower(), replace() and the patterns act on characters.        *)

KnownStrings ==
    {"SHARD-001-A",
     "SHARD-002-B",
     " SHARD-001-A ",
     "INVALID-ID",
     "Build core",
     " abc ",
     "abc",
     "Set up the core infrastructure",
     "Too short",
     "Security Sentinel",
     "Project Coordinator",
     "Project-Coordinator",
     "security_sentinel",
     "project_coordinator",
     "Analyzed requirements",
     "short",
     "S-1",
     "SHARD-01-A",
     "SHARD-0001-A",
     "SHARD-001-a",
     "SHARD-001-",
     "",
     "a1b2c3d",
     "a1b2c3",
     "A1B2C3D"}

CharsCase(s) ==
    CASE s = "SHARD-001-A" ->
           <<"S", "H", "A", "R", "D", "-", "0", "0", "1", "-", "A">>
      [] s = "SHARD-002-B" ->
           <<"S", "H", "A", "R", "D", "-", "0", "0", "2", "-", "B">>
      [] s = " SHARD-001-A " ->
           <<" ", "S", "H", "A", "R", "D", "-", "0", "0", "1", "-", "A", " ">>
      [] s = "INVALID-ID" ->
           <<"I", "N", "V", "A", "L", "I", "D", "-", "I", "D">>
      [] s = "Build core" ->
           <<"B", "u", "i", "l", "d", " ", "c", "o", "r", "e">>
      [] s = " abc " ->
           <<" ", "a", "b", "c", " ">>
      [] s = "abc" ->
           <<"a", "b", "c">>
      [] s = "Set up the core infrastructure" ->
           <<"S", "e", "t", " ", "u", "p", " ", "t", "h", "e", " ", "c", "o",
             "r", "e", " ", "i", "n", "f", "r", "a", "s", "t", "r", "u", "c",
             "t", "u", "r", "e">>
      [] s = "Too short" ->
           <<"T", "o", "o", " ", "s", "h", "o", "r", "t">>
      [] s = "Security Sentinel" ->
           <<"S", "e", "c", "u", "r", "i", "t", "y", " ", "S", "e", "n", "t",
             "i", "n", "e", "l">>
      [] s = "Project Coordinator" ->
           <<"P", "r", "o", "j", "e", "c", "t", " ", "C", "o", "o", "r", "d",
             "i", "n", "a", "t", "o", "r">>
      [] s = "Project-Coordinator" ->
           <<"P", "r", "o", "j", "e", "c", "t", "-", "C", "o", "o", "r", "d",
             "i", "n", "a", "t", "o", "r">>
      [] s = "security_sentinel" ->
           <<"s", "e", "c", "u", "r", "i", "t", "y", "_", "s", "e", "n", "t",
             "i", "n", "e", "l">>
      [] s = "project_coordinator" ->
           <<"p", "r", "o", "j", "e", "c", "t", "_", "c", "o", "o", "r", "d",
             "i", "n", "a", "t", "o", "r">>
      [] s = "Analyzed requirements" ->
           <<"A", "n", "a", "l", "y", "z", "e", "d", " ", "r", "e", "q", "u",
             "i", "r", "e", "m", "e", "n", "t", "s">>
      [] s = "short" ->
           <<"s", "h", "o", "r", "t">>
      [] s = "S-1" ->
           <<"S", "-", "1">>
      [] s = "SHARD-01-A" ->
           <<"S", "H", "A", "R", "D", "-", "0", "1", "-", "A">>
      [] s = "SHARD-0001-A" ->
           <<"S", "H", "A", "R", "D", "-", "0", "0", "0", "1", "-", "A">>
      [] s = "SHARD-001-a" ->
           <<"S", "H", "A", "R", "D", "-", "0", "0", "1", "-", "a">>
      [] s = "SHARD-001-" ->
           <<"S", "H", "A", "R", "D", "-", "0", "0", "1", "-">>
      [] s = "" ->
           <<>>
      [] s = "a1b2c3d" ->
           <<"a", "1", "b", "2", "c", "3", "d">>
      [] s = "a1b2c3" ->
           <<"a", "1", "b", "2", "c", "3">>
      [] s = "A1B2C3D" ->
           <<"A", "1", "B", "2", "C", "3", "D">>

UpperChars ==
    <<"A", "B", "C", "D", "E", "F", "G", "H", "I", "J", "K", "L", "M",
      "N", "O", "P", "Q", "R", "S", "T", "U", "V", "W", "X", "Y", "Z">>

LowerChars ==
    <<"a", "b", "c", "d", "e", "f", "g", "h", "i", "j", "k", "l", "m",
      "n", "o", "p", "q", "r", "s", "t", "u", "v", "w", "x", "y", "z">>

Digits == {"0", "1", "2", "3", "4", "5", "6", "7", "8", "9"}

IsUpper(c) == \E i \in DOMAIN UpperChars : UpperChars[i] = c

\* str.lower()
Lower(cs) ==
    [i \in DOMAIN cs |->
        IF IsUpper(cs[i])
        THEN LowerChars[CHOOSE k \in DOMAIN UpperChars : UpperChars[k] = cs[i]]
        ELSE cs[i]]

\* str.replace(' ', '_')
ReplaceSpace(cs) == [i \in DOMAIN cs |-> IF cs[i] = " " THEN "_" ELSE cs[i]]

\* str_strip_whitespace: leading and trailing blanks removed
Strip(cs) ==
    LET nonblank == {i \in DOMAIN cs : cs[i] # " "}
    IN  IF nonblank = {} THEN <<>>
        ELSE LET lo == CHOOSE i \in nonblank : \A j \in nonblank : i <= j
                 hi == CHOOSE i \in nonblank : \A j \in nonblank : j <= i
             IN  SubSeq(cs, lo, hi)

\* the characters of every string; the tables below are computed once
CharTable == [s \in KnownStrings |-> CharsCase(s)]

\* the characters of a string
Chars(s) == CharTable[s]

\* the string with the given characters
StrTable ==
    [cs \in {CharTable[s] : s \in KnownStrings} |->
        CHOOSE s \in KnownStrings : CharTable[s] = cs]

Str(cs) == StrTable[cs]

\* a string field after str_strip_whitespace: its characters, and the string
StripTable == [s \in KnownStrings |-> Strip(CharTable[s])]

Stripped(s) == StripTable[s]

\* name.lower().replace(' ', '_') of every string
NormalizeTable == [s \in KnownStrings |-> ReplaceSpace(Lower(CharTable[s]))]

Normalize(s) == NormalizeTable[s]

\* task_id.lower() of every string
LowerTable == [s \in KnownStrings |-> Lower(CharTable[s])]

----------------------------------------------------------------------------
(* schemas.py: the field constraints of the records the manager builds.   *)

TitleMinLen == 5
TitleMaxLen == 200
DescriptionMinLen == 20
ComplexityMin == 1
ComplexityMax == 10
TaskIdMinLen == 5
TaskIdMaxLen == 50
SummaryMinLen == 10
SummaryMaxLen == 5000
HashMinLen == 7
HashMaxLen == 40
\* SecurityLevel.PUBLIC
PUBLIC == 1
\* SecurityLevel.INTERNAL
INTERNAL == 2
\* SecurityLevel.TOP_SECRET
TOP_SECRET == 5
\* the estimated_complexity create_story_shard passes
CreateComplexity == 5

\* None, for an Optional field; a value v that is present is <<v>>
None == <<>>

\* TaskStatus values
PENDING == "pending"
IN_PROGRESS == "in_progress"
COMPLETED == "completed"

\* MatchesShardIdPattern with [A-Za-z] for [A-Z]
MatchesShardIdPatternAnyCase(cs) ==
    /\ Len(cs) >= 11
    /\ SubSeq(cs, 1, 6) = <<"S", "H", "A", "R", "D", "-">>
    /\ \A i \in 7..9 : cs[i] \in Digits
    /\ cs[10] = "-"
    /\ \A i \in 11..Len(cs) :
           \E k \in DOMAIN UpperChars : cs[i] \in {UpperChars[k], LowerChars[k]}

\* pattern ^SHARD-\d{3}-[A-Z]+$
MatchesShardIdPattern(cs) ==
    /\ Len(cs) >= 11
    /\ SubSeq(cs, 1, 6) = <<"S", "H", "A", "R", "D", "-">>
    /\ \A i \in 7..9 : cs[i] \in Digits
    /\ cs[10] = "-"
    /\ \A i \in 11..Len(cs) : IsUpper(cs[i])

\* whether each string, stripped, matches the shard_id pattern; computed once
ShardIdPatternTable ==
    [s \in KnownStrings |-> MatchesShardIdPattern(StripTable[s])]

\* the length of each string, stripped; computed once
StrippedLenTable == [s \in KnownStrings |-> Len(StripTable[s])]

\* StoryShardSpecErrors stopping at the first field that fails
StoryShardSpecErrorsFirstOnly(shard_id, title, description, estimated_complexity) ==
    IF ~MatchesShardIdPattern(Stripped(shard_id)) THEN {"shard_id"}
    ELSE IF ~(Len(Stripped(title)) \in TitleMinLen..TitleMaxLen) THEN {"title"}
    ELSE IF Len(Stripped(description)) < DescriptionMinLen THEN {"description"}
    ELSE IF ~(estimated_complexity \in ComplexityMin..ComplexityMax)
         THEN {"estimated_complexity"}
         ELSE {}

\* StoryShardSpecErrors with no bounds on estimated_complexity
StoryShardSpecErrorsNoBounds(shard_id, title, description, estimated_complexity) ==
    {f \in {"shard_id", "title", "description"} :
        \/ f = "shard_id" /\ ~MatchesShardIdPattern(Stripped(shard_id))
        \/ f = "title" /\ ~(Len(Stripped(title)) \in TitleMinLen..TitleMaxLen)
        \/ f = "description" /\ Len(Stripped(description)) < DescriptionMinLen}

\* the fields of StoryShardSpec(...) whose constraint the input violates;
\* every string is stripped before its constraint is checked
StoryShardSpecErrors(shard_id, title, description, estimated_complexity) ==
    {f \in {"shard_id", "title", "description", "estimated_complexity"} :
        \/ f = "shard_id" /\ ~ShardIdPatternTable[shard_id]
        \/ f = "title" /\ ~(StrippedLenTable[title] \in TitleMinLen..TitleMaxLen)
        \/ f = "description" /\ StrippedLenTable[description] < DescriptionMinLen
        \/ f = "estimated_complexity"
              /\ ~(estimated_complexity \in ComplexityMin..ComplexityMax)}

\* the validated StoryShardSpec instance (the fields the manager reads)
StoryShardSpec(shard_id, title, description, owner_agent, priority, status, dependencies, estimated_complexity, created_at) ==
    [shard_id |-> Str(Stripped(shard_id)),
     title |-> Str(Stripped(title)),
     description |-> Str(Stripped(description)),
     owner_agent |-> owner_agent,
     priority |-> priority,
     status |-> status,
     dependencies |-> dependencies,
     estimated_complexity |-> estimated_complexity,
     created_at |-> created_at]

\* the fields of AgenticJournalEntry(...) whose constraint the input violates
AgenticJournalEntryErrors(task_id, logic_summary) ==
    {f \in {"task_id", "logic_summary"} :
        \/ f = "task_id"
              /\ ~(Len(Stripped(task_id)) \in TaskIdMinLen..TaskIdMaxLen)
        \/ f = "logic_summary"
              /\ ~(Len(Stripped(logic_summary)) \in SummaryMinLen..SummaryMaxLen)}

\* the validated AgenticJournalEntry instance
AgenticJournalEntry(task_id, guru_agent, logic_summary, sub_agents_engaged, artifacts_created, security_clearance, status, timestamp) ==
    [task_id |-> Str(Stripped(task_id)),
     guru_agent |-> guru_agent,
     timestamp |-> timestamp,
     logic_summary |-> Str(Stripped(logic_summary)),
     sub_agents_engaged |-> sub_agents_engaged,
     git_commit_hash |-> None,
     artifacts_created |-> artifacts_created,
     security_clearance |-> security_clearance,
     next_steps |-> <<>>,
     status |-> status]

\* pattern ^[a-f0-9]{7,40}$
MatchesCommitHashPattern(cs) ==
    /\ Len(cs) \in HashMinLen..HashMaxLen
    /\ \A i \in DOMAIN cs : cs[i] \in Digits \cup {"a", "b", "c", "d", "e", "f"}

\* a value does not satisfy the constraint of this StoryShardSpec field
StoryShardSpecFieldError(field, value) ==
    CASE field = "shard_id" -> ~MatchesShardIdPattern(Stripped(value))
      [] field = "title" -> ~(Len(Stripped(value)) \in TitleMinLen..TitleMaxLen)
      [] field = "description" -> Len(Stripped(value)) < DescriptionMinLen
      [] field = "estimated_complexity" ->
             ~(value \in ComplexityMin..ComplexityMax)

\* a value does not satisfy the constraint of this AgenticJournalEntry field
AgenticJournalEntryFieldError(field, value) ==
    CASE field = "task_id" ->
             ~(Len(Stripped(value)) \in TaskIdMinLen..TaskIdMaxLen)
      [] field = "logic_summary" ->
             ~(Len(Stripped(value)) \in SummaryMinLen..SummaryMaxLen)
      [] field = "git_commit_hash" ->
             value # None /\ ~MatchesCommitHashPattern(Stripped(value[1]))
      [] field = "security_clearance" -> ~(value \in PUBLIC..TOP_SECRET)

\* Python's `not x` for a string
NotStr(x) == x = ""

\* Python's `not x` for an Optional[str]
NotOptionalStr(x) == x = None \/ x[1] = ""

\* ValidateJournalEntry asking for the commit hash at every clearance
ValidateJournalEntryAnyClearance(entry) ==
    IF NotStr(entry.task_id) \/ NotStr(entry.logic_summary)
    THEN FALSE
    ELSE IF NotOptionalStr(entry.git_commit_hash)
         THEN FALSE
         ELSE TRUE

\* validate_journal_entry
ValidateJournalEntry(entry) ==
    IF NotStr(entry.task_id) \/ NotStr(entry.logic_summary)
    THEN FALSE
    ELSE IF entry.security_clearance = TOP_SECRET
            /\ NotOptionalStr(entry.git_commit_hash)
         THEN FALSE
         ELSE TRUE

----------------------------------------------------------------------------
(* The inputs the operations are called with. *)

\* create_story_shard calls: valid ones (a blank-padded id among them) and
\* ones whose fields violate their constraints
CreateCalls ==
    {[shard_id |-> "SHARD-001-A", title |-> "Build core",
      description |-> "Set up the core infrastructure",
      owner_agent |-> "security_sentinel", priority |-> "medium",
      dependencies |-> <<"SHARD-002-B">>],
     [shard_id |-> " SHARD-001-A ", title |-> "Build core",
      description |-> "Set up the core infrastructure",
      owner_agent |-> "security_sentinel", priority |-> "medium",
      dependencies |-> <<"SHARD-002-B">>],
     [shard_id |-> "SHARD-002-B", title |-> "Build core",
      description |-> "Set up the core infrastructure",
      owner_agent |-> "project_coordinator", priority |-> "critical",
      dependencies |-> <<>>],
     [shard_id |-> "SHARD-001-A", title |-> " abc ",
      description |-> "Too short",
      owner_agent |-> "security_sentinel", priority |-> "medium",
      dependencies |-> <<>>]}
    \cup
    {[shard_id |-> s, title |-> "Build core",
      description |-> "Set up the core infrastructure",
      owner_agent |-> "security_sentinel", priority |-> "medium",
      dependencies |-> <<>>] :
       s \in {"INVALID-ID", "SHARD-0001-A", "SHARD-001-a"}}

\* the shard ids assign_shard_to_agent and complete_shard are called with
ShardIdInputs == {"SHARD-001-A", "SHARD-002-B"}

\* create_journal_entry calls
RecordCalls ==
    {[task_id |-> "SHARD-001-A", logic_summary |-> "Analyzed requirements",
      status |-> IN_PROGRESS],
     [task_id |-> "S-1", logic_summary |-> "short", status |-> IN_PROGRESS]}

\* create_journal_entry calls of several agents about one task: valid ones
\* (a blank-padded task id among them) and ones whose fields violate their
\* constraints
JournalCalls ==
    {[task_id |-> "SHARD-001-A", guru_agent |-> "security_sentinel",
      logic_summary |-> "Analyzed requirements", status |-> IN_PROGRESS],
     [task_id |-> "SHARD-001-A", guru_agent |-> "project_coordinator",
      logic_summary |-> "Set up the core infrastructure",
      status |-> COMPLETED],
     [task_id |-> " SHARD-001-A ", guru_agent |-> "security_sentinel",
      logic_summary |-> "Analyzed requirements", status |-> IN_PROGRESS],
     [task_id |-> "S-1", guru_agent |-> "security_sentinel",
      logic_summary |-> "Analyzed requirements", status |-> IN_PROGRESS],
     [task_id |-> "SHARD-001-A", guru_agent |-> "security_sentinel",
      logic_summary |-> "short", status |-> IN_PROGRESS],
     [task_id |-> "S-1", guru_agent |-> "security_sentinel",
      logic_summary |-> "short", status |-> IN_PROGRESS]}

\* the conductor manifests the manager may be constructed over
Manifests ==
    {<<[name |-> "Security Sentinel", status |-> "active"],
       [name |-> "security_sentinel", status |-> "planned"],
       [name |-> "Project-Coordinator", status |-> "active"]>>}

\* the times a clock read may return
ClockReads == {t \in now..(now + 1) : t <= MaxClock}

----------------------------------------------------------------------------
(* orchestrator.py *)

NoFile == <<>>

\* _load_active_shards
LoadActiveShards(file) ==
    IF file = NoFile
    THEN [active_shards |-> <<>>, completed_shards |-> <<>>,
          archived_shards |-> <<>>]
    ELSE file[1]

\* SaveActiveShards writing the active list alone
SaveActiveListOnly(doc) ==
    <<[doc EXCEPT !.completed_shards = <<>>, !.archived_shards = <<>>]>>

\* _save_active_shards: the whole document is written
SaveActiveShards(doc) == <<doc>>

\* the stored documents a manager may start from
StoredFiles ==
    {NoFile,
     <<[active_shards |-> <<>>, completed_shards |-> <<>>,
        archived_shards |-> <<>>, metrics |-> [total_completed |-> 0]]>>}

Init ==
    /\ manifest \in Manifests
    /\ shards_file \in StoredFiles
    /\ mem = LoadActiveShards(shards_file)
    /\ journal = [f \in {} |-> <<>>]
    /\ now = 0
    /\ last = [op |-> "init", outcome |-> "ok", ret |-> <<>>, errors |-> {},
               found |-> <<>>]
    /\ self = 1
    /\ peer = <<>>
    /\ done = {}

ShardCount(doc) ==
    Len(doc.active_shards) + Len(doc.completed_shards) + Len(doc.archived_shards)

\* FindShard reading the loop variable after the loop: with no match it
\* yields the last entry
FindShardLoopVariable(shards, shard_id) ==
    LET hits == {i \in DOMAIN shards : shards[i].shard_id = shard_id}
    IN  IF hits = {} THEN Len(shards)
        ELSE CHOOSE i \in hits : \A j \in hits : i <= j

\* the index of the first entry of the list with this shard_id, 0 if none
FindShard(shards, shard_id) ==
    LET hits == {i \in DOMAIN shards : shards[i].shard_id = shard_id}
    IN  IF hits = {} THEN 0
        ELSE CHOOSE i \in hits : \A j \in hits : i <= j

\* FindAgent reading the loop variable after the loop: with no match it
\* yields the last agent
FindAgentLoopVariable(agents, role) ==
    LET hits == {i \in DOMAIN agents :
                    Normalize(agents[i].name) = Chars(role)}
    IN  IF hits = {} THEN Len(agents)
        ELSE CHOOSE i \in hits : \A j \in hits : i <= j

\* the index of the first agent whose normalized name is the role, 0 if none
FindAgent(agents, role) ==
    LET hits == {i \in DOMAIN agents :
                    Normalize(agents[i].name) = Chars(role)}
    IN  IF hits = {} THEN 0
        ELSE CHOOSE i \in hits : \A j \in hits : i <= j

\* list.pop(i)
RemoveAt(s, i) == SubSeq(s, 1, i - 1) \o SubSeq(s, i + 1, Len(s))

\* ShardDict with the dependencies left out
ShardDictNoDependencies(shard) ==
    [shard_id |-> shard.shard_id,
     title |-> shard.title,
     status |-> shard.status,
     priority |-> shard.priority,
     owner_agent |-> shard.owner_agent,
     created_at |-> shard.created_at,
     dependencies |-> <<>>]

\* the entry create_story_shard appends to the active list
ShardDict(shard) ==
    [shard_id |-> shard.shard_id,
     title |-> shard.title,
     status |-> shard.status,
     priority |-> shard.priority,
     owner_agent |-> shard.owner_agent,
     created_at |-> shard.created_at,
     dependencies |-> shard.dependencies]

\* what a call leaves in `last`
Call(op, outcome, ret, errors, found) ==
    [op |-> op, outcome |-> outcome, ret |-> ret, errors |-> errors,
     found |-> found]

\* create_story_shard
CreateStoryShard(shard_id, title, description, owner_agent, priority, dependencies, t) ==
    LET errs == StoryShardSpecErrors(shard_id, title, description,
                                     CreateComplexity)
    IN  IF errs # {}
        THEN \* StoryShardSpec(...) raises ValidationError
             /\ last' = Call("create", "ValidationError", <<>>, errs, <<>>)
             /\ UNCHANGED <<manifest, mem, shards_file, journal, now>>
        ELSE LET shard == StoryShardSpec(shard_id, title, description,
                              owner_agent, priority, PENDING, dependencies,
                              CreateComplexity, t)
                 doc == [mem EXCEPT !.active_shards =
                                        Append(@, ShardDict(shard))]
             IN  /\ ShardCount(mem) < MaxShards
                 /\ mem' = doc
                 /\ shards_file' = SaveActiveShards(doc)
                 /\ now' = t
                 /\ last' = Call("create", "ok", <<shard>>, {}, <<>>)
                 /\ UNCHANGED <<manifest, journal>>

Create ==
    /\ \E c \in CreateCalls, t \in ClockReads :
           CreateStoryShard(c.shard_id, c.title, c.description, c.owner_agent,
                            c.priority, c.dependencies, t)
    /\ UNCHANGED instances

\* Assigned leaving the status as it is
AssignedKeepsStatus(shard) == shard

\* Assigned writing TaskStatus.BLOCKED for TaskStatus.IN_PROGRESS
AssignedBlocked(shard) == [shard EXCEPT !.status = "blocked"]

\* the shard as assign_shard_to_agent updates it
Assigned(shard) == [shard EXCEPT !.status = IN_PROGRESS]

\* AssignedDoc filing the updated shard at the end of the list instead of
\* updating the entry in place
AssignedDocAppends(doc, i) ==
    [doc EXCEPT !.active_shards = Append(@, Assigned(@[i]))]

\* the document after the update: the entry found is changed in place
AssignedDoc(doc, i) == [doc EXCEPT !.active_shards[i] = Assigned(@)]

\* assign_shard_to_agent
AssignShardToAgent(shard_id) ==
    LET i == FindShard(mem.active_shards, shard_id)
    IN  IF i = 0
        THEN \* "Shard ... not found", returns None
             /\ last' = Call("assign", "shard_not_found", <<>>, {}, <<>>)
             /\ UNCHANGED <<manifest, mem, shards_file, journal, now>>
        ELSE LET shard == mem.active_shards[i]
                 j == FindAgent(manifest, shard.owner_agent)
             IN  IF j = 0
                 THEN \* "Agent ... not found", returns None
                      /\ last' = Call("assign", "agent_not_found", <<>>, {},
                                      <<shard>>)
                      /\ UNCHANGED <<manifest, mem, shards_file, journal, now>>
                 ELSE LET doc == AssignedDoc(mem, i)
                      IN  /\ mem' = doc
                          /\ shards_file' = SaveActiveShards(doc)
                          /\ last' = Call("assign", "ok", <<manifest[j]>>, {},
                                          <<shard>>)
                          /\ UNCHANGED <<manifest, journal, now>>

Assign ==
    /\ \E shard_id \in ShardIdInputs : AssignShardToAgent(shard_id)
    /\ UNCHANGED instances

\* Completed stamping completed_at and leaving the status as it is
CompletedKeepsStatus(shard, t) ==
    [f \in DOMAIN shard \cup {"completed_at"} |->
        IF f = "completed_at" THEN t ELSE shard[f]]

\* the shard as complete_shard updates it: the entry gains completed_at
Completed(shard, t) ==
    [f \in DOMAIN shard \cup {"completed_at"} |->
        IF f = "status" THEN COMPLETED
        ELSE IF f = "completed_at" THEN t
        ELSE shard[f]]

\* complete_shard
CompleteShard(shard_id, t) ==
    LET i == FindShard(mem.active_shards, shard_id)
    IN  IF i = 0
        THEN \* "not found in active shards", returns False
             /\ last' = Call("complete", "False", <<>>, {}, <<>>)
             /\ UNCHANGED <<manifest, mem, shards_file, journal, now>>
        ELSE LET found == mem.active_shards[i]
                 shard == Completed(found, t)
                 moved == [mem EXCEPT
                              !.active_shards = RemoveAt(@, i),
                              !.completed_shards = Append(@, shard)]
             IN  IF "metrics" \in DOMAIN mem
                 THEN LET doc == [moved EXCEPT
                                     !.metrics.total_completed = @ + 1]
                      IN  /\ mem' = doc
                          /\ shards_file' = SaveActiveShards(doc)
                          /\ now' = t
                          /\ last' = Call("complete", "True", <<>>, {},
                                          <<found>>)
                          /\ UNCHANGED <<manifest, journal>>
                 ELSE \* self.active_shards["metrics"] raises KeyError once
                      \* the lists are changed and before the save
                      /\ mem' = moved
                      /\ now' = t
                      /\ last' = Call("complete", "KeyError", <<>>, {},
                                      <<found>>)
                      /\ UNCHANGED <<manifest, shards_file, journal>>

Complete ==
    /\ \E shard_id \in ShardIdInputs, t \in ClockReads :
           CompleteShard(shard_id, t)
    /\ UNCHANGED instances

\* the name of the journal file: the timestamp to the second and
\* task_id.lower()
JournalFileName(task_id, t) == <<t, LowerTable[task_id]>>

\* the text written, as its parts
JournalContent(entry) ==
    [task_id |-> entry.task_id,
     status |-> entry.status,
     owner_agent |-> entry.guru_agent,
     contributing_agents |-> entry.sub_agents_engaged,
     last_sync |-> entry.timestamp,
     security_clearance |-> entry.security_clearance,
     summary |-> entry.logic_summary,
     artifacts |-> entry.artifacts_created,
     next_steps |-> entry.next_steps]

\* WriteFile keeping a file that is there already
WriteFileIfAbsent(dir, name, content) ==
    [f \in DOMAIN dir \cup {name} |-> IF f \in DOMAIN dir THEN dir[f] ELSE content]

\* open(filepath, 'w'): a file of that name is replaced
WriteFile(dir, name, content) ==
    [f \in DOMAIN dir \cup {name} |-> IF f = name THEN content ELSE dir[f]]

\* CreateJournalEntry refusing a task_id that is no tracked shard
CreateJournalEntryTracked(task_id, guru_agent, logic_summary, status, t) ==
    LET errs == AgenticJournalEntryErrors(task_id, logic_summary)
        tracked == {mem.active_shards[i].shard_id :
                       i \in DOMAIN mem.active_shards}
    IN  IF errs # {}
        THEN /\ last' = Call("record", "ValidationError", <<>>, errs, <<>>)
             /\ UNCHANGED <<manifest, mem, shards_file, journal, now>>
        ELSE IF Str(Stripped(task_id)) \notin tracked
        THEN /\ last' = Call("record", "ValueError", <<>>, {}, <<>>)
             /\ UNCHANGED <<manifest, mem, shards_file, journal, now>>
        ELSE LET entry == AgenticJournalEntry(task_id, guru_agent,
                              logic_summary, <<>>, <<>>, INTERNAL, status, t)
                 name == JournalFileName(task_id, t)
             IN  /\ journal' = WriteFile(journal, name, JournalContent(entry))
                 /\ now' = t
                 /\ last' = Call("record", "ok", <<entry>>, {}, <<>>)
                 /\ UNCHANGED <<manifest, mem, shards_file>>

\* create_journal_entry
CreateJournalEntry(task_id, guru_agent, logic_summary, status, t) ==
    LET errs == AgenticJournalEntryErrors(task_id, logic_summary)
    IN  IF errs # {}
        THEN \* AgenticJournalEntry(...) raises ValidationError
             /\ last' = Call("record", "ValidationError", <<>>, errs, <<>>)
             /\ UNCHANGED <<manifest, mem, shards_file, journal, now>>
        ELSE LET entry == AgenticJournalEntry(task_id, guru_agent,
                              logic_summary, <<>>, <<>>, INTERNAL, status, t)
                 name == JournalFileName(task_id, t)
             IN  /\ journal' = WriteFile(journal, name, JournalContent(entry))
                 /\ now' = t
                 /\ last' = Call("record", "ok", <<entry>>, {}, <<>>)
                 /\ UNCHANGED <<manifest, mem, shards_file>>

Record ==
    /\ \E c \in RecordCalls, t \in ClockReads :
           CreateJournalEntry(c.task_id, "security_sentinel", c.logic_summary,
                              c.status, t)
    /\ UNCHANGED instances

Next == Create \/ Assign \/ Complete \/ Record

Spec == Init /\ [][Next]_vars

\* the journal recorder alone, called by several agents
RecordEntry ==
    /\ \E c \in JournalCalls, t \in ClockReads :
           CreateJournalEntry(c.task_id, c.guru_agent, c.logic_summary,
                              c.status, t)
    /\ UNCHANGED instances

NextJournal == RecordEntry

SpecJournal == Init /\ [][NextJournal]_vars

----------------------------------------------------------------------------
(* schemas.py used directly: records are constructed, their fields are    *)
(* assigned to, and the validation utilities are applied.  The record a   *)
(* caller holds is the one the last call returned, last.ret[1].           *)

\* the values each StoryShardSpec field is given
ShardFieldInputs ==
    [shard_id |-> {"SHARD-001-A", " SHARD-001-A ", "INVALID-ID", "SHARD-01-A",
                   "SHARD-0001-A", "SHARD-001-a", "SHARD-001-"},
     title |-> {"Build core", " abc "},
     description |-> {"Set up the core infrastructure", "Too short"},
     estimated_complexity |-> (ComplexityMin - 2)..(ComplexityMax + 2)]

\* the values each AgenticJournalEntry field is given
EntryFieldInputs ==
    [task_id |-> {"SHARD-001-A", "S-1"},
     logic_summary |-> {"Analyzed requirements", "short"},
     git_commit_hash |-> {None, <<"a1b2c3d">>, <<"a1b2c3">>, <<"A1B2C3D">>},
     security_clearance |-> {INTERNAL, TOP_SECRET, TOP_SECRET + 1}]

\* the entries validate_journal_entry is applied to (the fields it reads)
EntryInputs ==
    [task_id : {"", "SHARD-001-A"},
     logic_summary : {"", "Analyzed requirements"},
     security_clearance : PUBLIC..TOP_SECRET,
     git_commit_hash : {None, <<"">>, <<"a1b2c3d">>}]

\* the updates validate_code_update is applied to (the fields it reads)
UpdateInputs ==
    [tests_passed : BOOLEAN, security_scan_passed : BOOLEAN,
     linting_passed : BOOLEAN]

\* ValidateCodeUpdate without the security scan gate
ValidateCodeUpdateNoScan(update) ==
    IF ~update.tests_passed THEN FALSE
    ELSE IF ~update.linting_passed THEN FALSE
    ELSE TRUE

\* validate_code_update
ValidateCodeUpdate(update) ==
    IF ~update.tests_passed THEN FALSE
    ELSE IF ~update.security_scan_passed THEN FALSE
    ELSE IF ~update.linting_passed THEN FALSE
    ELSE TRUE

\* a bool as the outcome of a call
BoolOutcome(b) == IF b THEN "True" ELSE "False"

\* StoryShardSpec(shard_id=..., title=..., description=..., owner_agent=...,
\* estimated_complexity=...)
NewStoryShardSpec(shard_id, title, description, estimated_complexity, t) ==
    LET errs == StoryShardSpecErrors(shard_id, title, description,
                                     estimated_complexity)
        args == [shard_id |-> shard_id, title |-> title,
                 description |-> description,
                 estimated_complexity |-> estimated_complexity]
    IN  IF errs # {}
        THEN /\ last' = Call("StoryShardSpec", "ValidationError", <<>>, errs,
                             <<args>>)
             /\ UNCHANGED <<manifest, mem, shards_file, journal, now>>
        ELSE /\ last' = Call("StoryShardSpec", "ok",
                             <<StoryShardSpec(shard_id, title, description,
                                   "security_sentinel", "medium", PENDING,
                                   <<>>, estimated_complexity, t)>>,
                             {}, <<args>>)
             /\ now' = t
             /\ UNCHANGED <<manifest, mem, shards_file, journal>>

ConstructShard ==
    /\ \E shard_id \in ShardFieldInputs.shard_id,
          title \in ShardFieldInputs.title,
          description \in ShardFieldInputs.description,
          estimated_complexity \in ShardFieldInputs.estimated_complexity,
          t \in ClockReads :
           NewStoryShardSpec(shard_id, title, description,
                             estimated_complexity, t)
    /\ UNCHANGED instances

\* the fields of AgenticJournalEntry(task_id=..., guru_agent=...,
\* logic_summary=..., git_commit_hash=..., security_clearance=...) whose
\* constraint the input violates
NewEntryErrors(task_id, logic_summary, git_commit_hash, security_clearance) ==
    AgenticJournalEntryErrors(task_id, logic_summary)
        \cup {f \in {"git_commit_hash"} :
                 AgenticJournalEntryFieldError(f, git_commit_hash)}
        \cup {f \in {"security_clearance"} :
                 AgenticJournalEntryFieldError(f, security_clearance)}

\* the value a field holds once a valid value is given to it: strings are
\* stripped
FieldValue(field, value) ==
    CASE field \in {"shard_id", "title", "description", "task_id",
                    "logic_summary"} -> Str(Stripped(value))
      [] field = "git_commit_hash" ->
             IF value = None THEN None ELSE <<Str(Stripped(value[1]))>>
      [] OTHER -> value

NewAgenticJournalEntry(task_id, logic_summary, git_commit_hash, security_clearance, t) ==
    LET errs == NewEntryErrors(task_id, logic_summary, git_commit_hash,
                               security_clearance)
        args == [task_id |-> task_id, logic_summary |-> logic_summary,
                 git_commit_hash |-> git_commit_hash,
                 security_clearance |-> security_clearance]
    IN  IF errs # {}
        THEN /\ last' = Call("AgenticJournalEntry", "ValidationError", <<>>,
                             errs, <<args>>)
             /\ UNCHANGED <<manifest, mem, shards_file, journal, now>>
        ELSE /\ last' = Call("AgenticJournalEntry", "ok",
                             <<[AgenticJournalEntry(task_id,
                                    "security_sentinel", logic_summary, <<>>,
                                    <<>>, security_clearance, IN_PROGRESS, t)
                                  EXCEPT !.git_commit_hash =
                                      FieldValue("git_commit_hash",
                                                 git_commit_hash)]>>,
                             {}, <<args>>)
             /\ now' = t
             /\ UNCHANGED <<manifest, mem, shards_file, journal>>

ConstructEntry ==
    /\ \E task_id \in EntryFieldInputs.task_id,
          logic_summary \in EntryFieldInputs.logic_summary,
          git_commit_hash \in EntryFieldInputs.git_commit_hash,
          security_clearance \in EntryFieldInputs.security_clearance,
          t \in ClockReads :
           NewAgenticJournalEntry(task_id, logic_summary, git_commit_hash,
                                  security_clearance, t)
    /\ UNCHANGED instances

\* the caller holds a validated record: one it constructed, or the one
\* create_story_shard returned
HoldsRecord ==
    /\ last.op \in {"StoryShardSpec", "AgenticJournalEntry", "setattr",
                    "create"}
    /\ last.ret # <<>>

\* SetAttr as plain attribute assignment: the value is stored unchecked
SetAttrUnchecked(field, value) ==
    /\ HoldsRecord
    /\ last' = Call("setattr", "ok",
                    <<[last.ret[1] EXCEPT ![field] = FieldValue(field, value)]>>,
                    {}, <<last.ret[1], field, value>>)
    /\ UNCHANGED <<manifest, mem, shards_file, journal, now>>

\* record.field = value under validate_assignment=True: the field's
\* constraint is checked first, and a value that violates it is not stored
SetAttr(field, value) ==
    /\ HoldsRecord
    /\ LET record == last.ret[1]
           violated == IF "shard_id" \in DOMAIN record
                       THEN StoryShardSpecFieldError(field, value)
                       ELSE AgenticJournalEntryFieldError(field, value)
       IN  IF violated
           THEN last' = Call("setattr", "ValidationError", <<record>>,
                             {field}, <<record, field, value>>)
           ELSE last' = Call("setattr", "ok",
                             <<[record EXCEPT
                                   ![field] = FieldValue(field, value)]>>,
                             {}, <<record, field, value>>)
    /\ UNCHANGED <<manifest, mem, shards_file, journal, now>>

AssignField ==
    /\ HoldsRecord
    /\ \E inputs \in {ShardFieldInputs, EntryFieldInputs} :
           \E field \in DOMAIN inputs :
               \E value \in inputs[field] :
                   field \in DOMAIN last.ret[1] /\ SetAttr(field, value)
    /\ UNCHANGED instances

\* validate_journal_entry(entry)
ValidateEntry ==
    \E entry \in EntryInputs :
        /\ last' = Call("validate_journal_entry",
                        BoolOutcome(ValidateJournalEntry(entry)), <<entry>>,
                        {}, <<entry>>)
        /\ UNCHANGED <<manifest, mem, shards_file, journal, now>>
        /\ UNCHANGED instances

\* validate_code_update(update)
ValidateUpdate ==
    \E update \in UpdateInputs :
        /\ last' = Call("validate_code_update",
                        BoolOutcome(ValidateCodeUpdate(update)), <<update>>,
                        {}, <<update>>)
        /\ UNCHANGED <<manifest, mem, shards_file, journal, now>>
        /\ UNCHANGED instances

NextSchemas ==
    ConstructShard \/ ConstructEntry \/ AssignField \/ ValidateEntry
        \/ ValidateUpdate

SpecSchemas == Init /\ [][NextSchemas]_vars

----------------------------------------------------------------------------
(* Two manager instances over one repository.  Each instance loads the    *)
(* stored document when it is constructed and from then on works on its   *)
(* own self.active_shards, writing the whole of it at every save; nothing *)
(* orders the calls of the two.  `mem` is the document of the instance    *)
(* that makes the calls, `peer` the document of the other.  The calls are *)
(* made within one second: the clock reads `now` throughout.              *)

\* the create_story_shard calls made on the instances
SharedCalls ==
    {c \in CreateCalls :
        /\ c.shard_id \in {"SHARD-001-A", "SHARD-002-B"}
        /\ c.title = "Build core"}

\* AgentOrchestrator(repo_path) once more: the second instance loads the
\* stored document
SecondOrchestrator ==
    /\ peer = <<>>
    /\ peer' = <<LoadActiveShards(shards_file)>>
    /\ UNCHANGED <<manifest, mem, shards_file, journal, now, last, self, done>>

\* the next calls are made on the other instance
OtherInstance ==
    /\ peer # <<>>
    /\ self' = 3 - self
    /\ mem' = peer[1]
    /\ peer' = <<mem>>
    /\ UNCHANGED <<manifest, shards_file, journal, now, last, done>>

\* create_story_shard on the instance
InstanceCreate ==
    /\ \E c \in SharedCalls :
           CreateStoryShard(c.shard_id, c.title, c.description, c.owner_agent,
                            c.priority, c.dependencies, now)
    /\ done' = IF last'.outcome = "ok"
               THEN done \cup {<<self, "create", last'.ret[1].shard_id>>}
               ELSE done
    /\ UNCHANGED <<self, peer>>

\* assign_shard_to_agent on the instance
InstanceAssign ==
    /\ \E shard_id \in ShardIdInputs : AssignShardToAgent(shard_id)
    /\ done' = IF last'.outcome = "ok"
               THEN done \cup {<<self, "assign", last'.found[1].shard_id>>}
               ELSE done
    /\ UNCHANGED <<self, peer>>

\* complete_shard on the instance
InstanceComplete ==
    /\ \E shard_id \in ShardIdInputs : CompleteShard(shard_id, now)
    /\ done' = IF last'.outcome = "True"
               THEN done \cup {<<self, "complete", last'.found[1].shard_id>>}
               ELSE done
    /\ UNCHANGED <<self, peer>>

\* the statuses of TaskStatus
TaskStatusValues ==
    {"pending", "in_progress", "completed", "blocked", "failed", "archived"}

\* the statuses create_journal_entry is called with: its default, and two
\* that no shard it is called about has
RecordStatuses == {"in_progress", "completed", "blocked"}

\* create_journal_entry on the instance
InstanceRecord ==
    /\ \E c \in RecordCalls, status \in RecordStatuses :
           CreateJournalEntry(c.task_id, "security_sentinel", c.logic_summary,
                              status, now)
    /\ UNCHANGED instances

NextShared ==
    SecondOrchestrator \/ OtherInstance \/ InstanceCreate \/ InstanceAssign
        \/ InstanceComplete

SpecShared == Init /\ [][NextShared]_vars

\* the caller assigns to a field of the shard create_story_shard has just
\* returned: shard.title = ..., shard.estimated_complexity = ...
ReturnedSetAttr ==
    /\ last.op = "create"
    /\ \/ \E value \in ShardFieldInputs.title : SetAttr("title", value)
       \/ \E value \in {ComplexityMax, ComplexityMax + 1} :
              SetAttr("estimated_complexity", value)
    /\ UNCHANGED instances

\* the caller changes the dependencies of the shard create_story_shard has
\* just returned in place: shard.dependencies.append(...).  The entry that
\* was appended to the active list holds the same list object
\* ("dependencies": shard.dependencies), so the change shows in it; nothing
\* is saved
ReturnedDependenciesAppend ==
    /\ last.op = "create" /\ last.outcome = "ok"
    /\ \E shard_id \in ShardIdInputs :
           LET dependencies == Append(last.ret[1].dependencies, shard_id)
               n == Len(mem.active_shards)
           IN  /\ mem' = [mem EXCEPT
                             !.active_shards[n].dependencies = dependencies]
               /\ last' = Call("dependencies.append", "ok",
                               <<[last.ret[1] EXCEPT
                                     !.dependencies = dependencies]>>,
                               {}, <<last.ret[1], "dependencies", shard_id>>)
    /\ UNCHANGED <<manifest, shards_file, journal, now>>
    /\ UNCHANGED instances

\* one instance and its callers
NextCallers ==
    InstanceCreate \/ InstanceAssign \/ InstanceComplete \/ InstanceRecord
        \/ ReturnedSetAttr \/ ReturnedDependenciesAppend

SpecCallers == Init /\ [][NextCallers]_vars

----------------------------------------------------------------------------
(* Vocabulary of the properties.  These are stated on the documents alone *)
(* and use none of the lookups of the operations above.                   *)

IdsOf(shards) == {shards[i].shard_id : i \in DOMAIN shards}

CountOf(shards, id) == Cardinality({i \in DOMAIN shards : shards[i].shard_id = id})

AllIds(doc) ==
    IdsOf(doc.active_shards) \cup IdsOf(doc.completed_shards)
        \cup IdsOf(doc.archived_shards)

\* the position of the entry a lookup by id resolves to: the first one
FirstIndex(shards, id) ==
    CHOOSE i \in DOMAIN shards :
        /\ shards[i].shard_id = id
        /\ \A j \in 1..(i - 1) : shards[j].shard_id # id

FirstWith(shards, id) == shards[FirstIndex(shards, id)]

\* the manifest defines an agent for the role
Resolves(role) ==
    \E k \in DOMAIN manifest :
        ReplaceSpace(Lower(Chars(manifest[k].name))) = Chars(role)

\* the shard document holds a counter
HasMetrics(doc) == "metrics" \in DOMAIN doc

----------------------------------------------------------------------------
(* C1: in every state reachable from empty collections, every shard id    *)
(* appears in exactly one of the active, completed and archived           *)
(* collections, and exactly once there.                                   *)
C1_ShardInExactlyOneCollection ==
    \A id \in AllIds(mem) :
        CountOf(mem.active_shards, id) + CountOf(mem.completed_shards, id)
            + CountOf(mem.archived_shards, id) = 1

(* C2: Create with a shard_id already present in a collection (and        *)
(* otherwise valid fields) fails with a duplicate-shard error and leaves   *)
(* the collections, the counter and the stored document unchanged.         *)
C2_DuplicateCreateRejected ==
    [][\A c \in CreateCalls, t \in ClockReads :
          ( /\ CreateStoryShard(c.shard_id, c.title, c.description,
                                c.owner_agent, c.priority, c.dependencies, t)
            /\ c.shard_id \in AllIds(mem)
            /\ StoryShardSpecErrors(c.shard_id, c.title, c.description,
                                    CreateComplexity) = {} )
          => /\ last'.outcome = "DuplicateShardError"
             /\ UNCHANGED <<mem, shards_file>>]_vars

(* C3: a successful Complete(shard_id) removes the shard from active,     *)
(* appends it to completed with status completed and completed_at         *)
(* stamped, and adds exactly 1 to total_completed; afterwards the shard   *)
(* is absent from active and present in completed.                        *)
C3_CompleteMovesShard ==
    [][\A id \in ShardIdInputs, t \in ClockReads :
          (CompleteShard(id, t) /\ last'.outcome = "True")
          => LET shard == FirstWith(mem.active_shards, id)
             IN  /\ Len(mem'.active_shards) = Len(mem.active_shards) - 1
                 /\ mem'.completed_shards =
                        Append(mem.completed_shards,
                               [f \in DOMAIN shard \cup {"completed_at"} |->
                                   IF f = "status" THEN COMPLETED
                                   ELSE IF f = "completed_at" THEN t
                                   ELSE shard[f]])
                 /\ mem'.metrics.total_completed =
                        mem.metrics.total_completed + 1
                 /\ id \notin IdsOf(mem'.active_shards)
                 /\ id \in IdsOf(mem'.completed_shards)]_vars

\* the document with the three changes of Complete(id) applied
C4_AllApplied(before, after, id) ==
    /\ HasMetrics(before) /\ HasMetrics(after)
    /\ Len(after.active_shards) = Len(before.active_shards) - 1
    /\ Len(after.completed_shards) = Len(before.completed_shards) + 1
    /\ after.completed_shards[Len(after.completed_shards)].shard_id = id
    /\ after.metrics.total_completed = before.metrics.total_completed + 1

(* C4: Complete is all-or-nothing: after every Complete call, returned or *)
(* aborted, the in-memory and the stored document are either the pre-call *)
(* document or the document with all three changes applied.               *)
C4_CompleteAllOrNothing ==
    [][\A id \in ShardIdInputs, t \in ClockReads :
          CompleteShard(id, t)
          => \/ UNCHANGED <<mem, shards_file>>
             \/ /\ C4_AllApplied(mem, mem', id)
                /\ shards_file' = <<mem'>>]_vars

(* C5: Complete(shard_id) for an id that is not in the active collection  *)
(* reports failure and leaves the collections, total_completed and the    *)
(* stored document unchanged; and a Complete of the id that the previous  *)
(* call completed successfully fails.                                     *)
C5_CompleteUnknownFails ==
    [][\A id \in ShardIdInputs, t \in ClockReads :
          CompleteShard(id, t)
          => /\ id \notin IdsOf(mem.active_shards)
                    => /\ last'.outcome = "False"
                       /\ UNCHANGED <<mem, shards_file>>
             /\ ( /\ last.op = "complete"
                  /\ last.outcome = "True"
                  /\ last.found[1].shard_id = id )
                    => last'.outcome = "False"]_vars

(* C6: a successful Assign(shard_id) on a pending active shard sets that   *)
(* shard's status to in_progress, changes no other shard and no other     *)
(* field, returns the agent whose normalized name is the shard's          *)
(* owner_agent, and stores the updated document.                          *)
C6_AssignSetsInProgress ==
    [][\A id \in ShardIdInputs :
          ( /\ AssignShardToAgent(id)
            /\ id \in IdsOf(mem.active_shards)
            /\ FirstWith(mem.active_shards, id).status = PENDING
            /\ last'.outcome = "ok" )
          => LET i == FirstIndex(mem.active_shards, id)
             IN  /\ mem' = [mem EXCEPT !.active_shards[i].status = IN_PROGRESS]
                 /\ Len(last'.ret) = 1
                 /\ ReplaceSpace(Lower(Chars(last'.ret[1].name)))
                        = Chars(mem.active_shards[i].owner_agent)
                 /\ shards_file' = <<mem'>>]_vars

\* an Assign that found a pending shard has returned its agent, another
\* shard is in the active list, and the stored document is the one in memory
C6_Witness ==
    /\ last.op = "assign" /\ last.outcome = "ok"
    /\ last.found[1].status = PENDING
    /\ Len(mem.active_shards) >= 2
    /\ FirstWith(mem.active_shards, last.found[1].shard_id).status = IN_PROGRESS
    /\ shards_file = <<mem>>

(* C7: Assign on a shard that is already in_progress succeeds, returns    *)
(* the agent of the same owner and leaves the document as it was: status  *)
(* still in_progress, the same entries, no duplicate.                     *)
C7_AssignIdempotent ==
    [][\A id \in ShardIdInputs :
          ( /\ AssignShardToAgent(id)
            /\ id \in IdsOf(mem.active_shards)
            /\ FirstWith(mem.active_shards, id).status = IN_PROGRESS )
          => /\ last'.outcome = "ok"
             /\ Len(last'.ret) = 1
             /\ ReplaceSpace(Lower(Chars(last'.ret[1].name)))
                    = Chars(FirstWith(mem.active_shards, id).owner_agent)
             /\ mem' = mem]_vars

\* a second Assign has acted on a shard that was in_progress already
C7_Witness ==
    /\ last.op = "assign" /\ last.outcome = "ok"
    /\ last.found[1].status = IN_PROGRESS
    /\ FirstWith(mem.active_shards, last.found[1].shard_id).status = IN_PROGRESS

(* C8: Assign(shard_id) for an id that is not in the active collection    *)
(* ends not-found, returns nothing and changes neither a shard nor the    *)
(* stored document.                                                       *)
C8_AssignUnknownNotFound ==
    [][\A id \in ShardIdInputs :
          (AssignShardToAgent(id) /\ id \notin IdsOf(mem.active_shards))
          => /\ last'.outcome = "shard_not_found"
             /\ last'.ret = <<>>
             /\ UNCHANGED <<mem, shards_file>>]_vars

\* an Assign has ended not-found while shards were active and completed
C8_Witness ==
    /\ last.op = "assign" /\ last.outcome = "shard_not_found"
    /\ mem.active_shards # <<>>
    /\ mem.completed_shards # <<>>

(* C9: Assign on an active shard whose owner_agent resolves to no agent   *)
(* of the manifest ends unknown-agent, leaves the shard's status as it    *)
(* was and stores nothing.                                                *)
C9_AssignUnknownAgent ==
    [][\A id \in ShardIdInputs :
          ( /\ AssignShardToAgent(id)
            /\ id \in IdsOf(mem.active_shards)
            /\ ~Resolves(FirstWith(mem.active_shards, id).owner_agent) )
          => /\ last'.outcome = "agent_not_found"
             /\ last'.ret = <<>>
             /\ UNCHANGED <<mem, shards_file>>]_vars

\* an Assign has ended unknown-agent on a pending shard, which is pending
C9_Witness ==
    /\ last.op = "assign" /\ last.outcome = "agent_not_found"
    /\ last.found[1].status = PENDING
    /\ ~Resolves(last.found[1].owner_agent)
    /\ FirstWith(mem.active_shards, last.found[1].shard_id).status = PENDING

(* C10: Assign is the dependency gate, so no shard is in_progress or      *)
(* completed while one of its dependencies is absent from the completed   *)
(* collection.                                                            *)
C10_DependenciesCompletedFirst ==
    \A shards \in {mem.active_shards, mem.completed_shards} :
        \A i \in DOMAIN shards :
            shards[i].status \in {IN_PROGRESS, COMPLETED}
                => \A k \in DOMAIN shards[i].dependencies :
                       shards[i].dependencies[k] \in IdsOf(mem.completed_shards)

----------------------------------------------------------------------------
(* More vocabulary: a string without its leading and trailing blanks,     *)
(* stated on the characters and not through the tables of the program.    *)

Blanks(n) == [i \in 1..n |-> " "]

\* u is s without its leading and trailing blanks
IsTrimOf(u, s) ==
    /\ u \in KnownStrings
    /\ LET cu == CharsCase(u)
           cs == CharsCase(s)
       IN  /\ cu # <<>> => (cu[1] # " " /\ cu[Len(cu)] # " ")
           /\ \E a \in 0..(Len(cs) - Len(cu)) :
                  cs = Blanks(a) \o cu \o Blanks(Len(cs) - Len(cu) - a)

\* every string without its leading and trailing blanks, computed once
TrimmedOf == [s \in KnownStrings |-> {u \in KnownStrings : IsTrimOf(u, s)}]

\* the fields the constructor refuses in each Create call, computed once
CreateErrors ==
    [c \in CreateCalls |->
        StoryShardSpecErrors(c.shard_id, c.title, c.description,
                             CreateComplexity)]

\* the fields of the call are valid for a StoryShardSpec
ValidCreate(c) == CreateErrors[c] = {}

\* one of the dependencies of the call is in no collection
DependencyMissing(c) ==
    \E k \in DOMAIN c.dependencies : c.dependencies[k] \notin AllIds(mem)

\* what every successful Create does to the collections
C11_Appended(c) ==
    LET n == Len(mem.active_shards)
    IN  /\ Len(mem'.active_shards) = n + 1
        /\ SubSeq(mem'.active_shards, 1, n) = mem.active_shards
        /\ mem'.active_shards[n + 1].status = PENDING
        /\ mem'.active_shards[n + 1].owner_agent = c.owner_agent
        /\ mem'.active_shards[n + 1].priority = c.priority
        /\ mem'.active_shards[n + 1].dependencies = c.dependencies
        /\ Len(last'.ret) = 1
        /\ last'.ret[1].owner_agent = c.owner_agent
        /\ last'.ret[1].status = PENDING
        /\ mem'.completed_shards = mem.completed_shards
        /\ mem'.archived_shards = mem.archived_shards

IsShardId(cs) ==
    \E n \in 1..Len(cs) :
        /\ Len(cs) = 10 + n
        /\ <<cs[1], cs[2], cs[3], cs[4], cs[5], cs[6]>>
               = <<"S", "H", "A", "R", "D", "-">>
        /\ {cs[7], cs[8], cs[9]}
               \subseteq {"0", "1", "2", "3", "4", "5", "6", "7", "8", "9"}
        /\ cs[10] = "-"
        /\ {cs[10 + k] : k \in 1..n}
               \subseteq {UpperChars[k] : k \in DOMAIN UpperChars}

\* the strings that are shard ids, computed once
ShardIdStrings == {s \in KnownStrings : IsShardId(CharsCase(s))}

\* the string as given is a shard id
C12_Matches(s) == s \in ShardIdStrings

\* the string without its leading and trailing blanks is a shard id
C12_MatchesTrimmed(s) == TrimmedOf[s] \cap ShardIdStrings # {}

\* the calls whose title and description are valid, computed once
C12_OtherFieldsValidCalls ==
    {c \in CreateCalls :
        /\ \E u \in TrimmedOf[c.title] : Len(CharsCase(u)) \in 5..200
        /\ \E u \in TrimmedOf[c.description] : Len(CharsCase(u)) >= 20}

C12_OtherFieldsValid(c) == c \in C12_OtherFieldsValidCalls

(* C12 (as stated): Create with a shard_id that does not match            *)
(* SHARD-<3 digits>-<uppercase letters> fails with a validation error     *)
(* and leaves the active collection and the stored document unchanged;    *)
(* with a matching id and otherwise valid fields it succeeds.             *)
C12_PatternOnArgument ==
    [][\A c \in CreateCalls :
          ( /\ last'.op = "create"
            /\ last'.errors = CreateErrors[c]
            /\ now' \in ClockReads
            /\ CreateStoryShard(c.shard_id, c.title, c.description,
                                c.owner_agent, c.priority, c.dependencies,
                                now') )
          => /\ ~C12_Matches(c.shard_id)
                    => /\ last'.outcome = "ValidationError"
                       /\ "shard_id" \in last'.errors
                       /\ UNCHANGED <<mem, shards_file>>
             /\ (C12_Matches(c.shard_id) /\ C12_OtherFieldsValid(c))
                    => last'.outcome = "ok"]_vars

(* C12 (amended): the same, for the shard_id without its leading and      *)
(* trailing blanks.                                                       *)
C12_PatternOnTrimmedArgument ==
    [][\A c \in CreateCalls :
          ( /\ last'.op = "create"
            /\ last'.errors = CreateErrors[c]
            /\ now' \in ClockReads
            /\ CreateStoryShard(c.shard_id, c.title, c.description,
                                c.owner_agent, c.priority, c.dependencies,
                                now') )
          => /\ ~C12_MatchesTrimmed(c.shard_id)
                    => /\ last'.outcome = "ValidationError"
                       /\ "shard_id" \in last'.errors
                       /\ UNCHANGED <<mem, shards_file>>
             /\ (C12_MatchesTrimmed(c.shard_id) /\ C12_OtherFieldsValid(c))
                    => last'.outcome = "ok"]_vars

\* a Create was refused for its shard_id while a shard is stored
C12_Witness ==
    /\ last.op = "create" /\ last.outcome = "ValidationError"
    /\ last.errors = {"shard_id"}
    /\ mem.active_shards # <<>>
    /\ shards_file = <<mem>>


(* C13: the journal is append-only: every successful Record adds one new  *)
(* journal record and leaves every existing record as it was, whatever    *)
(* the time between the calls.                                            *)
C13_JournalAppendOnly ==
    [][\A c \in JournalCalls, t \in ClockReads :
          ( /\ CreateJournalEntry(c.task_id, c.guru_agent, c.logic_summary,
                                  c.status, t)
            /\ last'.outcome = "ok" )
          => /\ Cardinality(DOMAIN journal') = Cardinality(DOMAIN journal) + 1
             /\ \A f \in DOMAIN journal :
                    f \in DOMAIN journal' /\ journal'[f] = journal[f]]_vars


\* the journal calls whose fields are schema-valid, computed once
C14_ValidCalls ==
    {c \in JournalCalls :
        /\ \E u \in TrimmedOf[c.task_id] : Len(CharsCase(u)) \in 5..50
        /\ \E u \in TrimmedOf[c.logic_summary] :
               Len(CharsCase(u)) \in 10..5000}

\* the journal holds a record written at t under the task id as given, in
\* lower case, with the fields of the entry
C14_Written(dir, c, t, entry) ==
    \E f \in DOMAIN dir :
        /\ f = <<t, Lower(CharsCase(c.task_id))>>
        /\ dir[f].task_id = entry.task_id
        /\ dir[f].summary = entry.logic_summary
        /\ dir[f].status = entry.status
        /\ dir[f].owner_agent = entry.guru_agent
        /\ dir[f].last_sync = entry.timestamp

C15_Persisted(file) ==
    IF file = <<>>
    THEN [active_shards |-> <<>>, completed_shards |-> <<>>,
          archived_shards |-> <<>>]
    ELSE file[1]

(* C15: after every Create, Assign and Complete call, successful or       *)
(* failed, the stored shard document equals the in-memory document field  *)
(* for field.                                                             *)
C15_PersistedEqualsMemory ==
    [][(Create \/ Assign \/ Complete)
          => C15_Persisted(shards_file') = mem']_vars


\* no commit hash is given: the field is None or holds the empty string
C16_HashAbsent(entry) ==
    entry.git_commit_hash = <<>> \/ entry.git_commit_hash = <<"">>

\* two entries that differ in nothing but the commit hash
C16_SameButHash(e1, e2) ==
    /\ e1.task_id = e2.task_id
    /\ e1.logic_summary = e2.logic_summary
    /\ e1.security_clearance = e2.security_clearance

(* C16: validate_journal_entry returns false exactly when task_id is      *)
(* empty, or logic_summary is empty, or security_clearance is TOP_SECRET  *)
(* and no commit hash is given, and true otherwise; below TOP_SECRET the  *)
(* result of two calls on entries that differ in the hash only is the     *)
(* same.                                                                  *)
C16_ValidateJournalEntry ==
    [][last'.op = "validate_journal_entry"
          => /\ last'.outcome \in {"True", "False"}
             /\ last'.outcome = "False"
                    <=> \/ last'.ret[1].task_id = ""
                        \/ last'.ret[1].logic_summary = ""
                        \/ /\ last'.ret[1].security_clearance = 5
                           /\ C16_HashAbsent(last'.ret[1])
             /\ ( /\ last.op = "validate_journal_entry"
                  /\ C16_SameButHash(last.ret[1], last'.ret[1])
                  /\ last'.ret[1].security_clearance < 5 )
                    => last'.outcome = last.outcome]_vars

\* validate_journal_entry has returned false for a schema-valid TOP_SECRET
\* entry without commit hash
C16_Witness ==
    /\ last.op = "validate_journal_entry"
    /\ last.outcome = "False"
    /\ last.ret[1] = [task_id |-> "SHARD-001-A",
                      logic_summary |-> "Analyzed requirements",
                      security_clearance |-> 5,
                      git_commit_hash |-> <<>>]

(* C17: validate_code_update returns true if and only if tests_passed,    *)
(* security_scan_passed and linting_passed are all true, and the record   *)
(* is after the call what it was before.                                  *)
C17_ValidateCodeUpdate ==
    [][last'.op = "validate_code_update"
          => /\ last'.outcome \in {"True", "False"}
             /\ last'.outcome = "True"
                    <=> /\ last'.ret[1].tests_passed
                        /\ last'.ret[1].security_scan_passed
                        /\ last'.ret[1].linting_passed
             /\ last'.ret = last'.found]_vars

\* validate_code_update has returned false for an update whose security
\* scan alone failed
C17_Witness ==
    /\ last.op = "validate_code_update"
    /\ last.outcome = "False"
    /\ last.ret[1] = [tests_passed |-> TRUE, security_scan_passed |-> FALSE,
                      linting_passed |-> TRUE]


----------------------------------------------------------------------------
(* The field constraints, stated on the characters of the values.         *)

\* the strings of 7 to 40 characters, each a digit or one of a to f
HexStrings ==
    {s \in KnownStrings :
        /\ Len(CharsCase(s)) \in 7..40
        /\ \A i \in DOMAIN CharsCase(s) :
               CharsCase(s)[i] \in {"0", "1", "2", "3", "4", "5", "6", "7",
                                    "8", "9", "a", "b", "c", "d", "e", "f"}}

\* the value, without its leading and trailing blanks, has a length in lo..hi
LengthWithin(value, lo, hi) ==
    \E u \in TrimmedOf[value] : Len(CharsCase(u)) \in lo..hi

\* the value satisfies the constraint of the field
Satisfies(field, value) ==
    CASE field = "shard_id" -> TrimmedOf[value] \cap ShardIdStrings # {}
      [] field = "title" -> LengthWithin(value, 5, 200)
      [] field = "description" ->
             \E u \in TrimmedOf[value] : Len(CharsCase(u)) >= 20
      [] field = "estimated_complexity" -> value >= 1 /\ value <= 10
      [] field = "task_id" -> LengthWithin(value, 5, 50)
      [] field = "logic_summary" -> LengthWithin(value, 10, 5000)
      [] field = "git_commit_hash" ->
             value = <<>> \/ TrimmedOf[value[1]] \cap HexStrings # {}
      [] field = "security_clearance" -> value \in {1, 2, 3, 4, 5}
      [] OTHER -> TRUE

\* the fields of the arguments or of the record that violate their constraint
Violated(fields) == {f \in DOMAIN fields : ~Satisfies(f, fields[f])}

Holds(stored, field, value) ==
    CASE field \in {"shard_id", "title", "description", "task_id",
                    "logic_summary"} -> stored \in TrimmedOf[value]
      [] field = "git_commit_hash" ->
             IF value = <<>> THEN stored = <<>>
             ELSE Len(stored) = 1 /\ stored[1] \in TrimmedOf[value[1]]
      [] OTHER -> stored = value

\* a record is held: the last construction or assignment has left one
HeldRecord(call) ==
    /\ call.op \in {"StoryShardSpec", "AgenticJournalEntry", "setattr"}
    /\ call.ret # <<>>

(* C19: assigning to a field of a validated record re-runs the field's    *)
(* constraint: a value that violates it is refused with the validation    *)
(* error of construction and the record is left as it was, a value that   *)
(* satisfies it is stored; so every record held satisfies all its field   *)
(* constraints after any constructions and assignments.                   *)
C19_ValidateOnAssignment ==
    [][ /\ last'.op = "setattr"
           => /\ last'.found[1] = last.ret[1]
              /\ ~Satisfies(last'.found[2], last'.found[3])
                     => /\ last'.outcome = "ValidationError"
                        /\ last'.errors = {last'.found[2]}
                        /\ last'.ret = last.ret
              /\ Satisfies(last'.found[2], last'.found[3])
                     => /\ last'.outcome = "ok"
                        /\ \A f \in DOMAIN last.ret[1] :
                               IF f = last'.found[2]
                               THEN Holds(last'.ret[1][f], f, last'.found[3])
                               ELSE last'.ret[1][f] = last.ret[1][f]
        /\ HeldRecord(last') => Violated(last'.ret[1]) = {} ]_vars

\* an assignment of an estimated_complexity out of bounds was refused and
\* the record holds the value it had
C19_Witness ==
    /\ last.op = "setattr"
    /\ last.outcome = "ValidationError"
    /\ last.found[2] = "estimated_complexity"
    /\ last.found[3] = 11
    /\ last.ret[1].estimated_complexity = last.found[1].estimated_complexity
    /\ last.ret[1].estimated_complexity \in 1..10

(* C20: a construction from input in which several fields violate their  *)
(* constraint fails with a validation error that lists every violated     *)
(* field: the fields reported are the fields violated.                    *)
C20_AllErrorsReported ==
    [][last'.op \in {"StoryShardSpec", "AgenticJournalEntry"}
          => IF Violated(last'.found[1]) = {}
             THEN last'.outcome = "ok"
             ELSE /\ last'.outcome = "ValidationError"
                  /\ last'.errors = Violated(last'.found[1])]_vars

\* a construction was refused for three fields at once
C20_Witness ==
    /\ last.op \in {"StoryShardSpec", "AgenticJournalEntry"}
    /\ last.outcome = "ValidationError"
    /\ Cardinality(last.errors) >= 3
    /\ last.errors = Violated(last.found[1])

----------------------------------------------------------------------------
(* The statuses a shard id is seen with, over the three collections.      *)

StatusesIn(shards, id) ==
    {shards[i].status : i \in {k \in DOMAIN shards : shards[k].shard_id = id}}

StatusesOf(doc, id) ==
    StatusesIn(doc.active_shards, id) \cup StatusesIn(doc.completed_shards, id)
        \cup StatusesIn(doc.archived_shards, id)

(* C21: the status of a shard only moves forward along pending,           *)
(* in_progress, completed: a shard id that is in_progress is not pending  *)
(* afterwards, and a shard id that has reached completed is not seen      *)
(* afterwards with status pending or in_progress in any collection.       *)
C21_StatusMovesForward ==
    [][\A id \in AllIds(mem) :
          /\ "in_progress" \in StatusesOf(mem, id)
                 => "pending" \notin StatusesOf(mem', id)
          /\ "completed" \in StatusesOf(mem, id)
                 => /\ "pending" \notin StatusesOf(mem', id)
                    /\ "in_progress" \notin StatusesOf(mem', id)]_vars

\* a manager operation gives the status to a shard id that is in_progress
C22_Moves(status) ==
    /\ Next
    /\ \E id \in AllIds(mem) :
           /\ "in_progress" \in StatusesOf(mem, id)
           /\ status \in StatusesOf(mem', id)

C23_Moved(id) ==
    LET i == FirstIndex(mem.active_shards, id)
        n == Len(mem'.completed_shards)
    IN  /\ mem'.active_shards =
               SubSeq(mem.active_shards, 1, i - 1)
                   \o SubSeq(mem.active_shards, i + 1, Len(mem.active_shards))
        /\ n = Len(mem.completed_shards) + 1
        /\ mem'.completed_shards[n].shard_id = id
        /\ mem'.completed_shards[n].status = "completed"
        /\ mem'.completed_shards[n].created_at
               = mem.active_shards[i].created_at

(* C23: Complete on an active shard whose status is still pending returns *)
(* success and moves it to the completed collection with status           *)
(* completed, without the shard having been in_progress.                  *)
C23_CompletePending ==
    [][\A id \in ShardIdInputs :
          ( /\ last'.op = "complete"
            /\ now' \in ClockReads
            /\ CompleteShard(id, now')
            /\ id \in IdsOf(mem.active_shards)
            /\ FirstWith(mem.active_shards, id).status = "pending" )
          => /\ last'.outcome = "True"
             /\ C23_Moved(id)
             /\ shards_file' = <<mem'>>]_vars

\* the document shows the effect of a mutating call that returned success
C24_EffectIn(d, doc) ==
    CASE d[2] = "create" -> d[3] \in AllIds(doc)
      [] d[2] = "assign" ->
             StatusesOf(doc, d[3]) \cap {"in_progress", "completed"} # {}
      [] d[2] = "complete" -> d[3] \in IdsOf(doc.completed_shards)

(* C24: with a single instance making the successful mutating calls, no   *)
(* successful mutation is missing from the persisted document; with two   *)
(* instances sharing the document a lost update is reachable (the         *)
(* witness).                                                              *)
C24_SingleWriterLosesNothing ==
    (\A d \in done : \A e \in done : d[1] = e[1])
        => \A d \in done : C24_EffectIn(d, C15_Persisted(shards_file))

\* both instances have made a successful mutating call, and the persisted
\* document, as the instance that wrote last left it, lacks the effect of
\* a call of the other
C24_Witness ==
    /\ \E d \in done : d[1] = 1
    /\ \E d \in done : d[1] = 2
    /\ shards_file = <<mem>>
    /\ \E d \in done :
           /\ d[1] # self
           /\ ~C24_EffectIn(d, C15_Persisted(shards_file))

\* the Record calls whose fields are schema-valid, computed once
C25_ValidCalls ==
    {c \in RecordCalls :
        /\ \E u \in TrimmedOf[c.task_id] : Len(CharsCase(u)) \in 5..50
        /\ \E u \in TrimmedOf[c.logic_summary] :
               Len(CharsCase(u)) \in 10..5000}

(* C25: Record does not check its task_id against the shard collections   *)
(* and does not touch them: with schema-valid fields it succeeds, for a   *)
(* task_id that is in no collection too, and every Record call, whatever  *)
(* status it carries, leaves the collections, every shard's status,       *)
(* total_completed and the stored shard document unchanged.               *)
C25_RecordLeavesShards ==
    [][last'.op = "record"
          => \A c \in RecordCalls, status \in RecordStatuses :
                ( /\ last'.ret # <<>> => last'.ret[1].status = status
                  /\ CreateJournalEntry(c.task_id, "security_sentinel",
                                        c.logic_summary, status, now) )
                => /\ c \in C25_ValidCalls
                          => /\ last'.outcome = "ok"
                             /\ Len(last'.ret) = 1
                   /\ mem' = mem
                   /\ shards_file' = shards_file]_vars

\* a Record with status completed has succeeded for a task id that is in
\* no collection, while one shard is pending and stored
C25_Witness ==
    /\ last.op = "record" /\ last.outcome = "ok"
    /\ last.ret[1].status = "completed"
    /\ last.ret[1].task_id \notin AllIds(mem)
    /\ \E id \in AllIds(mem) : StatusesOf(mem, id) = {"pending"}
    /\ shards_file = <<mem>>

\* the entry is as a create_story_shard call made it: its title, owner,
\* priority and dependencies are those given for its shard_id
C26_AsCreated(entry) ==
    \E c \in SharedCalls :
        /\ entry.shard_id = c.shard_id
        /\ entry.title = c.title
        /\ entry.owner_agent = c.owner_agent
        /\ entry.priority = c.priority
        /\ entry.dependencies = c.dependencies

\* every entry of the document is as it was created
C26_AllAsCreated(doc) ==
    \A shards \in {doc.active_shards, doc.completed_shards} :
        \A i \in DOMAIN shards : C26_AsCreated(shards[i])

(* C26: changes a caller makes to the shard record Create returned, its   *)
(* dependencies list changed in place among them, show neither in the     *)
(* manager's collections nor in a stored document, then or later; an      *)
(* entry the manager holds changes through Assign and Complete only.      *)
C26_ReturnedShardIsSnapshot ==
    [][ /\ last'.op \in {"setattr", "dependencies.append"}
           => UNCHANGED <<mem, shards_file>>
        /\ C26_AllAsCreated(mem')
        /\ C26_AllAsCreated(C15_Persisted(shards_file'))
        /\ last'.op \notin {"assign", "complete"}
           => /\ SubSeq(mem'.active_shards, 1, Len(mem.active_shards))
                     = mem.active_shards
              /\ mem'.completed_shards = mem.completed_shards ]_vars

\* total_completed of the document; a document without the counter has none
C27_Total(doc) ==
    IF "metrics" \in DOMAIN doc THEN <<doc.metrics.total_completed>> ELSE <<>>

(* C27: the completed collection grows only by appending at its end and   *)
(* total_completed never decreases: every successful Complete adds one    *)
(* entry to completed and 1 to total_completed, and Create, Assign,       *)
(* Record and every failed operation change neither; so total_completed   *)
(* minus its initial value is the number of successful Complete calls and *)
(* the number of entries added to completed.                              *)
C27_CompletedCountsCompletes ==
    [][IF last'.op = "complete" /\ last'.outcome = "True"
       THEN /\ Len(mem'.completed_shards) = Len(mem.completed_shards) + 1
            /\ SubSeq(mem'.completed_shards, 1, Len(mem.completed_shards))
                   = mem.completed_shards
            /\ C27_Total(mem) # <<>>
            /\ C27_Total(mem') = <<C27_Total(mem)[1] + 1>>
       ELSE /\ mem'.completed_shards = mem.completed_shards
            /\ C27_Total(mem') = C27_Total(mem)]_vars

\* what Assign and Complete leave alone in an entry
C28_Identity(entry) ==
    <<entry.shard_id, entry.owner_agent, entry.priority, entry.dependencies,
      entry.created_at>>

\* how many entries of the active and completed collections have this
\* identity
C28_Count(doc, identity) ==
    Cardinality({i \in DOMAIN doc.active_shards :
                    C28_Identity(doc.active_shards[i]) = identity})
        + Cardinality({i \in DOMAIN doc.completed_shards :
                          C28_Identity(doc.completed_shards[i]) = identity})

\* status and collection agree in the document
C28_Agree(doc) ==
    /\ \A i \in DOMAIN doc.active_shards :
           /\ doc.active_shards[i].status \in {"pending", "in_progress"}
           /\ "completed_at" \notin DOMAIN doc.active_shards[i]
    /\ \A i \in DOMAIN doc.completed_shards :
           /\ doc.completed_shards[i].status = "completed"
           /\ "completed_at" \in DOMAIN doc.completed_shards[i]

(* C28: in every state reachable from empty collections every entry of    *)
(* the active collection is pending or in_progress and has no             *)
(* completed_at, and every entry of the completed collection is completed *)
(* and has a completed_at stamp; Assign and Complete never change a       *)
(* shard's shard_id, owner_agent, priority, dependencies or created_at.   *)
C28_StatusAgreesWithCollection ==
    [][ /\ C28_Agree(mem')
        /\ C28_Agree(C15_Persisted(shards_file'))
        /\ last'.op \in {"assign", "complete"}
               => \A shards \in {mem.active_shards, mem.completed_shards,
                                 mem'.active_shards, mem'.completed_shards} :
                      \A i \in DOMAIN shards :
                          C28_Count(mem', C28_Identity(shards[i]))
                              = C28_Count(mem, C28_Identity(shards[i])) ]_vars

\* a shard with a dependency was assigned and then completed: it is the
\* last of completed with the identity it had, next to a pending shard
C28_Witness ==
    /\ last.op = "complete" /\ last.outcome = "True"
    /\ last.found[1].status = "in_progress"
    /\ last.found[1].dependencies # <<>>
    /\ C28_Identity(mem.completed_shards[Len(mem.completed_shards)])
           = C28_Identity(last.found[1])
    /\ "completed_at" \in DOMAIN mem.completed_shards[Len(mem.completed_shards)]
    /\ \E i \in DOMAIN mem.active_shards :
           mem.active_shards[i].status = "pending"


====
